---- MODULE Spec2Model ----
(***************************************************************************)
(* Blood Pressure Logger (app.py): the metric calculator (categorize_bp,   *)
(* the derived row built by add_entry), the two-backend reading store      *)
(* (local CSV file, Google Sheets worksheet) and the handlers that run a   *)
(* whole load -> modify -> save cycle over it (add_entry, CSV import/merge,*)
(* clear-all, plain load).                                                 *)
(*                                                                         *)
(* Three specifications share the module:                                  *)
(*   Spec      one session, every handler is one atomic action;            *)
(*   SpecRace  two sessions, add_entry split at its two I/O points;        *)
(*   SpecCat   the metric calculator applied to every input of the form.   *)
(***************************************************************************)
EXTENDS Integers, Sequences, FiniteSets

VARIABLES configured, local, remote, last, sess, order, catIn, catOut, catRow

vars == <<configured, local, remote, last, sess, order, catIn, catOut, catRow>>

(* ------------------------------ bounds --------------------------------- *)

\* Timestamps are counted in ticks; TicksPerSecond ticks make one second, so
\* a tick that is not a multiple of TicksPerSecond has a sub-second part.
TicksPerSecond == 2
\* The handlers are disabled once a table would exceed MaxRows rows.
MaxRows == 2

(* --------------------------- program constants ------------------------- *)

SysMin == 50
SysMax == 260
DiaMin == 30
DiaMax == 180
PulseDefault == 70

Schema == {"timestamp", "systolic", "diastolic", "pulse", "notes", "category", "map", "pulse_pressure"}

\* pandas' missing values: NaT in a timestamp column, NaN in a numeric
\* column, NaN in a text column.  An empty CSV or worksheet cell is "".
NaT == 0 - 1
NaN == 0 - 1000
NaNStr == "NaN"

\* The timestamps the form submits: the start of a second, a moment within
\* that second, and the start of the next second.
Times == {0, 1, TicksPerSecond}

(* ------------------------------ metric calculator ---------------------- *)

\* categorize_bp with the first comparison off by one
categorize_bp_le(sys, dia) ==
    IF sys <= 120 /\ dia < 80 THEN "Normal"
    ELSE IF (120 <= sys /\ sys < 130) /\ dia < 80 THEN "Elevated"
    ELSE IF (130 <= sys /\ sys < 140) \/ (80 <= dia /\ dia < 90) THEN "Hypertension Stage 1"
    ELSE IF sys >= 140 \/ dia >= 90 THEN "Hypertension Stage 2"
    ELSE "Uncategorized"

\* categorize_bp with "and" for "or" in the last rule
categorize_bp_and(sys, dia) ==
    IF sys < 120 /\ dia < 80 THEN "Normal"
    ELSE IF (120 <= sys /\ sys < 130) /\ dia < 80 THEN "Elevated"
    ELSE IF (130 <= sys /\ sys < 140) \/ (80 <= dia /\ dia < 90) THEN "Hypertension Stage 1"
    ELSE IF sys >= 140 /\ dia >= 90 THEN "Hypertension Stage 2"
    ELSE "Uncategorized"

\* categorize_bp with the diastolic range of the third rule open at 80
categorize_bp_gap(sys, dia) ==
    IF sys < 120 /\ dia < 80 THEN "Normal"
    ELSE IF (120 <= sys /\ sys < 130) /\ dia < 80 THEN "Elevated"
    ELSE IF (130 <= sys /\ sys < 140) \/ (80 < dia /\ dia < 90) THEN "Hypertension Stage 1"
    ELSE IF sys >= 140 \/ dia >= 90 THEN "Hypertension Stage 2"
    ELSE "Uncategorized"

categorize_bp(sys, dia) ==
    IF sys < 120 /\ dia < 80 THEN "Normal"
    ELSE IF (120 <= sys /\ sys < 130) /\ dia < 80 THEN "Elevated"
    ELSE IF (130 <= sys /\ sys < 140) \/ (80 <= dia /\ dia < 90) THEN "Hypertension Stage 1"
    ELSE IF sys >= 140 \/ dia >= 90 THEN "Hypertension Stage 2"
    ELSE "Uncategorized"

\* round(dia + pulse_pressure/3, 1), held in tenths of a mmHg.  The exact
\* value is (30*dia + 10*pp)/3 tenths, whose fraction is 0, 1/3 or 2/3, so
\* rounding is to the nearest tenth and never meets a tie.
mean_arterial_pressure(dia, pp) ==
    (2 * (30 * dia + 10 * pp) + 3) \div 6

\* The row dictionary add_entry builds.
NewRow(sys, dia, pulse, notes, ts) ==
    [timestamp |-> ts,
     systolic |-> sys,
     diastolic |-> dia,
     pulse |-> pulse,
     notes |-> notes,
     category |-> categorize_bp(sys, dia),
     map |-> mean_arterial_pressure(dia, sys - dia),
     pulse_pressure |-> sys - dia]

(* ------------------------------ data frames ---------------------------- *)

\* A table (DataFrame, CSV file body or worksheet body) is a set of column
\* names and a sequence of rows; a row is a record over the eight columns of
\* Schema, a column the table lacks holding NaT/NaN/NaNStr after a concat.
\* A DataFrame also has the dtype of its timestamp column, "datetime64" or
\* "object"; pd.DataFrame(columns=...) makes every column "object".
EmptyFrame == [cols |-> Schema, rows |-> <<>>, tsdtype |-> "object"]

\* The dtype of the timestamp column of pd.concat([df, other]) where other's
\* is datetime64.  Whether an empty object column takes part in the result
\* dtype depends on the pandas version, so both results are possible.
ConcatDtypes(df) ==
    IF df.tsdtype = "datetime64" THEN {"datetime64"} ELSE {"datetime64", "object"}

\* Text cells: an empty cell is parsed as NaN, NaN is written as an empty cell.
ParseText(t) == IF t = "" THEN NaNStr ELSE t
WriteText(t) == IF t = NaNStr THEN "" ELSE t

ParseRow(r) == [r EXCEPT !.notes = ParseText(@), !.category = ParseText(@)]
WriteRow(r) == [r EXCEPT !.notes = WriteText(@), !.category = WriteText(@)]

ParseRows(rows) == [i \in 1..Len(rows) |-> ParseRow(rows[i])]
WriteRows(rows) == [i \in 1..Len(rows) |-> WriteRow(rows[i])]

\* df.dropna(subset=["timestamp"])
HasTimestamp(r) == r.timestamp # NaT
DropNaT(rows) == SelectSeq(rows, HasTimestamp)

\* dt.strftime("%Y-%m-%d %H:%M:%S"): the sub-second part is cut off.
Strftime(ts) == IF ts = NaT THEN NaT ELSE ts - (ts % TicksPerSecond)
StrftimeRows(rows) == [i \in 1..Len(rows) |-> [rows[i] EXCEPT !.timestamp = Strftime(@)]]

\* sort_values("timestamp"): ascending, missing timestamps last.  The default
\* sort kind is not stable, so rows of equal timestamp may come out in any
\* order: SortValues is the set of the possible results.
SortKey(r) == IF r.timestamp = NaT THEN TicksPerSecond + 1 ELSE r.timestamp
\* s with r put at any place that leaves the keys ascending
Placements(s, r) ==
    {SubSeq(s, 1, k) \o <<r>> \o SubSeq(s, k + 1, Len(s)) :
        k \in {j \in 0..Len(s) :
                 /\ \A i \in 1..j : SortKey(s[i]) <= SortKey(r)
                 /\ \A i \in (j + 1)..Len(s) : SortKey(r) <= SortKey(s[i])}}
\* sort_values left out
SortValues_kept(rows) == {rows}

RECURSIVE SortValues(_)
SortValues(rows) ==
    IF rows = <<>> THEN {<<>>}
    ELSE UNION {Placements(s, rows[Len(rows)]) :
                    s \in SortValues(SubSeq(rows, 1, Len(rows) - 1))}

\* drop_duplicates(): of rows equal in every column the first is kept.
RECURSIVE drop_duplicates(_)
drop_duplicates(rows) ==
    IF rows = <<>> THEN <<>>
    ELSE LET front == drop_duplicates(SubSeq(rows, 1, Len(rows) - 1))
             r == rows[Len(rows)]
         IN IF \E i \in 1..Len(front) : front[i] = r THEN front ELSE Append(front, r)

(* ------------------------------ data IO -------------------------------- *)

\* Outcomes of one remote call.  The callers test only whether an error
\* came back, not which.  "failed": get_sheet_handles returned an error
\* (authorisation failed, the spreadsheet could not be opened) or the call
\* on the worksheet raised (get_as_dataframe for a read, ws.clear() for a
\* write) and the sheet is as it was; "failed_cleared": set_with_dataframe
\* raised after ws.clear() had emptied the sheet.
ReadOutcomes == {"ok", "failed"}
WriteOutcomes == {"ok", "failed", "failed_cleared"}

MissingFile == [exists |-> FALSE, cols |-> {}, rows |-> <<>>]

load_data_local(file) ==
    IF file.exists
    THEN [cols |-> file.cols, rows |-> DropNaT(ParseRows(file.rows)),
          tsdtype |-> IF DropNaT(file.rows) = <<>> THEN "object" ELSE "datetime64"]
    ELSE EmptyFrame

save_data_local(df) ==
    [exists |-> TRUE, cols |-> df.cols, rows |-> WriteRows(df.rows)]

load_data_gsheets(ws, rd) ==
    IF rd # "ok" THEN [df |-> EmptyFrame, err |-> rd]
    ELSE [df |-> [cols |-> IF ws.rows = <<>> THEN Schema ELSE ws.cols,
                  rows |-> DropNaT(ParseRows(ws.rows)),
                  tsdtype |-> "datetime64"],
          err |-> "none"]

save_data_gsheets(df, ws, wr) ==
    CASE wr = "ok" ->
           [ws |-> [cols |-> Schema,
                    rows |-> WriteRows(IF df.tsdtype = "datetime64"
                                       THEN StrftimeRows(df.rows) ELSE df.rows)],
            err |-> "none"]
      [] wr = "failed_cleared" -> [ws |-> [cols |-> {}, rows |-> <<>>], err |-> wr]
      [] OTHER -> [ws |-> ws, err |-> wr]

load_data(cfg, file, ws, rd) ==
    IF cfg
    THEN LET g == load_data_gsheets(ws, rd)
         IN IF g.err # "none"
            THEN [df |-> load_data_local(file), src |-> "local"]
            ELSE [df |-> g.df, src |-> "gsheets"]
    ELSE [df |-> load_data_local(file), src |-> "local"]

\* save_data that reports the fallback without writing the local file
save_data_nowrite(df, target, cfg, file, ws, wr) ==
    IF target = "gsheets" /\ cfg
    THEN LET g == save_data_gsheets(df, ws, wr)
         IN IF g.err # "none"
            THEN [local |-> file, remote |-> g.ws,
                  target |-> "local", localWrites |-> 0, error |-> g.err]
            ELSE [local |-> file, remote |-> g.ws,
                  target |-> "gsheets", localWrites |-> 0, error |-> "none"]
    ELSE [local |-> save_data_local(df), remote |-> ws,
          target |-> "local", localWrites |-> 1, error |-> "none"]

save_data(df, target, cfg, file, ws, wr) ==
    IF target = "gsheets" /\ cfg
    THEN LET g == save_data_gsheets(df, ws, wr)
         IN IF g.err # "none"
            THEN [local |-> save_data_local(df), remote |-> g.ws,
                  target |-> "local", localWrites |-> 1, error |-> g.err]
            ELSE [local |-> file, remote |-> g.ws,
                  target |-> "gsheets", localWrites |-> 0, error |-> "none"]
    ELSE [local |-> save_data_local(df), remote |-> ws,
          target |-> "local", localWrites |-> 1, error |-> "none"]

\* The remote outcomes a call can meet: none when Sheets is not configured.
Reads(cfg) == IF cfg THEN ReadOutcomes ELSE {"unused"}
Writes(cfg) == IF cfg THEN WriteOutcomes ELSE {"unused"}

\* io_mode of the sidebar
io_mode(cfg) == IF cfg THEN "gsheets" ELSE "local"

(* ------------------------------ inputs --------------------------------- *)

\* The reading the form submits in Spec and SpecRace (SpecCat takes them all).
Readings == {<<120, 79>>}

\* A CSV file holding nothing but raw readings: the derived columns are absent.
RawCols == {"timestamp", "systolic", "diastolic"}
RawRow(ts, sys, dia) ==
    [timestamp |-> ts, systolic |-> sys, diastolic |-> dia, pulse |-> NaN,
     notes |-> "", category |-> "", map |-> NaN, pulse_pressure |-> NaN]

\* The files the uploader is given: an export of the table as the download
\* button writes it (df_download_bytes of load_data), a file of one raw
\* reading whose timestamp cell may be blank, and a file with no timestamp
\* column at all.  Uploaded files carry no column outside Schema.
Exports(cfg, file, ws) ==
    {[cols |-> load_data(cfg, file, ws, rd).df.cols,
      rows |-> WriteRows(load_data(cfg, file, ws, rd).df.rows)] : rd \in Reads(cfg)}
RawFiles ==
    {[cols |-> RawCols, rows |-> <<RawRow(ts, 120, 79)>>] : ts \in {0, NaT}}
NoTimestampFile ==
    [cols |-> {"systolic", "diastolic"}, rows |-> <<RawRow(NaT, 120, 79)>>]
Uploads(cfg, file, ws) == Exports(cfg, file, ws) \cup RawFiles \cup {NoTimestampFile}

(* ------------------------------ handlers ------------------------------- *)

NoRow == RawRow(NaT, NaN, NaN)

\* What the last handler did: its name, the backend it reports, the error
\* it showed, the row it built, the table it returned or rendered, how many
\* times it wrote the local file and the outcome of its remote read.
NoCall ==
    [op |-> "init", target |-> "none", error |-> "none", row |-> NoRow,
     df |-> EmptyFrame, localWrites |-> 0, read |-> "none"]

\* The tail of add_entry appending to the table as stored at the time of
\* the save, not to the table loaded earlier
add_entry_save_fresh(df, row, io_target, cfg, file, ws, wr) ==
    LET now == load_data(cfg, file, ws, "ok").df
    IN {[df |-> [cols |-> now.cols \cup Schema, rows |-> sorted, tsdtype |-> dt],
         row |-> row,
         saved |-> save_data([cols |-> now.cols \cup Schema, rows |-> sorted, tsdtype |-> dt],
                             io_target, cfg, file, ws, wr)] :
            sorted \in SortValues(Append(now.rows, row)), dt \in ConcatDtypes(now)}

\* The tail of add_entry: append the row, sort, save.  Every (df,
\* actual_target) it can return, with the store it leaves.
add_entry_save(df, row, io_target, cfg, file, ws, wr) ==
    {[df |-> [cols |-> df.cols \cup Schema, rows |-> sorted, tsdtype |-> dt],
      row |-> row,
      saved |-> save_data([cols |-> df.cols \cup Schema, rows |-> sorted, tsdtype |-> dt],
                          io_target, cfg, file, ws, wr)] :
         sorted \in SortValues(Append(df.rows, row)), dt \in ConcatDtypes(df)}

add_entry(sys, dia, pulse, notes, ts, io_target, cfg, file, ws, rd, wr) ==
    add_entry_save(load_data(cfg, file, ws, rd).df, NewRow(sys, dia, pulse, notes, ts),
                   io_target, cfg, file, ws, wr)

AddEntry ==
    /\ \E rdg \in Readings, ts \in Times, rd \in Reads(configured), wr \in Writes(configured) :
          /\ Len(load_data(configured, local, remote, rd).df.rows) < MaxRows
          /\ \E res \in add_entry(rdg[1], rdg[2], PulseDefault, "", ts, "gsheets",
                                  configured, local, remote, rd, wr) :
                /\ local' = res.saved.local
                /\ remote' = res.saved.remote
                /\ last' = [op |-> "add", target |-> res.saved.target,
                            error |-> res.saved.error, row |-> res.row, df |-> res.df,
                            localWrites |-> res.saved.localWrites, read |-> rd]
    /\ UNCHANGED <<configured, sess, order, catIn, catOut, catRow>>

\* the merge without drop_duplicates
import_merge_all(existing, incoming) ==
    {[cols |-> existing.cols \cup incoming.cols, rows |-> sorted,
      tsdtype |-> dt] :
        sorted \in SortValues(existing.rows \o incoming.rows),
        dt \in ConcatDtypes(existing)}

\* importMerge: pd.concat([existing, incoming]).drop_duplicates().sort_values(...)
import_merge(existing, incoming) ==
    {[cols |-> existing.cols \cup incoming.cols, rows |-> sorted,
      tsdtype |-> dt] :
        sorted \in SortValues(drop_duplicates(existing.rows \o incoming.rows)),
        dt \in ConcatDtypes(existing)}

\* pd.read_csv(uploaded, parse_dates=["timestamp"]): no row is dropped.
read_upload(upload) ==
    [cols |-> upload.cols, rows |-> ParseRows(upload.rows), tsdtype |-> "datetime64"]

ImportMerge ==
    /\ \E rd \in Reads(configured), wr \in Writes(configured),
          upload \in Uploads(configured, local, remote) :
          LET existing == load_data(configured, local, remote, rd).df
          IN IF "timestamp" \notin upload.cols
             THEN \* read_csv raises; the handler reports "Import failed"
                  /\ last' = [NoCall EXCEPT !.op = "import_failed",
                                            !.error = "import_failed", !.read = rd]
                  /\ UNCHANGED <<local, remote>>
             ELSE \E merged \in import_merge(existing, read_upload(upload)) :
                  /\ Len(merged.rows) <= MaxRows
                  /\ LET sv == save_data(merged, io_mode(configured), configured,
                                         local, remote, wr)
                     IN /\ local' = sv.local
                        /\ remote' = sv.remote
                        /\ last' = [op |-> "import", target |-> sv.target,
                                    error |-> sv.error, row |-> NoRow, df |-> merged,
                                    localWrites |-> sv.localWrites, read |-> rd]
    /\ UNCHANGED <<configured, sess, order, catIn, catOut, catRow>>

ClearAll ==
    /\ \E wr \in Writes(configured) :
          LET sv == save_data(EmptyFrame, io_mode(configured), configured, local, remote, wr)
          IN /\ local' = sv.local
             /\ remote' = sv.remote
             /\ last' = [op |-> "clear", target |-> sv.target, error |-> sv.error,
                         row |-> NoRow, df |-> EmptyFrame,
                         localWrites |-> sv.localWrites, read |-> "none"]
    /\ UNCHANGED <<configured, sess, order, catIn, catOut, catRow>>

\* The page's own read (df, _ = load_data()) when nothing was submitted.
Load ==
    /\ \E rd \in Reads(configured) :
          LET ld == load_data(configured, local, remote, rd)
          IN last' = [op |-> "load", target |-> ld.src, error |-> "none", row |-> NoRow,
                      df |-> ld.df, localWrites |-> 0, read |-> rd]
    /\ UNCHANGED <<configured, local, remote, sess, order, catIn, catOut, catRow>>

(* ------------------------------ one session ---------------------------- *)

Sessions == {1, 2}
IdleSession == [pc |-> "idle", df |-> EmptyFrame, row |-> NoRow, seen |-> 0,
                target |-> "none", error |-> "none"]
NoInput == <<0, 0>>

\* A fresh deployment: no CSV file yet, a worksheet holding its header row.
StoreInit ==
    /\ configured \in BOOLEAN
    /\ local = MissingFile
    /\ remote = [cols |-> Schema, rows |-> <<>>]

Init ==
    /\ StoreInit
    /\ last = NoCall
    /\ sess = [s \in Sessions |-> IdleSession]
    /\ order = <<>>
    /\ catIn = NoInput
    /\ catOut = "none"
    /\ catRow = NoRow

Next == AddEntry \/ ImportMerge \/ ClearAll \/ Load

Spec == Init /\ [][Next]_vars

(* ------------------------------ two sessions --------------------------- *)

\* add_entry in session s up to the return of load_data: the arguments of
\* the call and the table it loaded; seen is the number of saves done so far.
AddLoad(s) ==
    /\ sess[s].pc = "idle"
    /\ \E rdg \in Readings, ts \in Times, rd \in Reads(configured) :
          sess' = [sess EXCEPT ![s] =
                     [pc |-> "loaded",
                      df |-> load_data(configured, local, remote, rd).df,
                      row |-> NewRow(rdg[1], rdg[2], PulseDefault, "", ts),
                      seen |-> Len(order), target |-> "none", error |-> "none"]]
    /\ UNCHANGED <<configured, local, remote, last, order, catIn, catOut, catRow>>

\* add_entry in session s from the concat to its return.
AddSave(s) ==
    /\ sess[s].pc = "loaded"
    /\ \E wr \in Writes(configured) :
          \E res \in add_entry_save(sess[s].df, sess[s].row, "gsheets",
                                    configured, local, remote, wr) :
             /\ local' = res.saved.local
             /\ remote' = res.saved.remote
             /\ sess' = [sess EXCEPT ![s] =
                           [@ EXCEPT !.pc = "done",
                                     !.target = res.saved.target,
                                     !.error = res.saved.error]]
    /\ order' = Append(order, s)
    /\ UNCHANGED <<configured, last, catIn, catOut, catRow>>

\* A reading added before the two sessions start.
Seed ==
    /\ last.op = "init"
    /\ order = <<>>
    /\ \A s \in Sessions : sess[s].pc = "idle"
    /\ AddEntry

NextRace == Seed \/ \E s \in Sessions : AddLoad(s) \/ AddSave(s)

SpecRace == Init /\ [][NextRace]_vars

(* ------------------------------ the calculator alone ------------------- *)

\* Every pair the two number inputs of the form admit.
FormInputs == (SysMin..SysMax) \X (DiaMin..DiaMax)

InitCat ==
    /\ configured = FALSE
    /\ local = MissingFile
    /\ remote = [cols |-> Schema, rows |-> <<>>]
    /\ last = NoCall
    /\ sess = [s \in Sessions |-> IdleSession]
    /\ order = <<>>
    /\ catIn \in FormInputs
    /\ catOut = "none"
    /\ catRow = NoRow

Categorize ==
    /\ catOut = "none"
    /\ catOut' = categorize_bp(catIn[1], catIn[2])
    /\ UNCHANGED <<configured, local, remote, last, sess, order, catIn, catRow>>

\* The row add_entry builds from the form's values.
MakeRow ==
    /\ catRow = NoRow
    /\ catRow' = NewRow(catIn[1], catIn[2], PulseDefault, "", 0)
    /\ UNCHANGED <<configured, local, remote, last, sess, order, catIn, catOut>>

NextCat == Categorize \/ MakeRow

SpecCat == InitCat /\ [][NextCat]_vars

(* ------------------------------ properties ----------------------------- *)

Range(seq) == {seq[i] : i \in 1..Len(seq)}
Count(seq, r) == Cardinality({i \in 1..Len(seq) : seq[i] = r})
SameBag(a, b) == \A r \in Range(a) \cup Range(b) : Count(a, r) = Count(b, r)

\* Ascending by timestamp as sort_values leaves a table: the timestamps that
\* are present never decrease, and rows without one come after all others.
Ascending(rows) ==
    \A i, j \in 1..Len(rows) :
        i < j => /\ rows[i].timestamp = NaT => rows[j].timestamp = NaT
                 /\ rows[j].timestamp # NaT => rows[i].timestamp <= rows[j].timestamp

\* The rule table of the category definitions, rule k of 1..4.
RuleHolds(k, sys, dia) ==
    CASE k = 1 -> sys < 120 /\ dia < 80
      [] k = 2 -> 120 <= sys /\ sys < 130 /\ dia < 80
      [] k = 3 -> (130 <= sys /\ sys < 140) \/ (80 <= dia /\ dia < 90)
      [] k = 4 -> sys >= 140 \/ dia >= 90
RuleLabel(k) ==
    CASE k = 1 -> "Normal"
      [] k = 2 -> "Elevated"
      [] k = 3 -> "Hypertension Stage 1"
      [] k = 4 -> "Hypertension Stage 2"
FirstMatch(sys, dia) ==
    IF \E k \in 1..4 : RuleHolds(k, sys, dia)
    THEN RuleLabel(CHOOSE k \in 1..4 :
                      /\ RuleHolds(k, sys, dia)
                      /\ \A h \in 1..(k - 1) : ~RuleHolds(h, sys, dia))
    ELSE "Uncategorized"

Categorized == catOut # "none"

\* C1: for every pair the form admits, categorize_bp returns the label of
\* the first rule that holds when the rules are tried in the order Normal,
\* Elevated, Stage 1, Stage 2; the seven boundary readings get the labels
\* the specification lists.
C1_FirstMatchWins ==
    Categorized =>
        /\ catOut = FirstMatch(catIn[1], catIn[2])
        /\ catIn = <<119, 79>> => catOut = "Normal"
        /\ catIn = <<120, 79>> => catOut = "Elevated"
        /\ catIn = <<129, 79>> => catOut = "Elevated"
        /\ catIn = <<130, 79>> => catOut = "Hypertension Stage 1"
        /\ catIn = <<139, 89>> => catOut = "Hypertension Stage 1"
        /\ catIn = <<140, 70>> => catOut = "Hypertension Stage 2"
        /\ catIn = <<110, 90>> => catOut = "Hypertension Stage 2"

\* A reading that holds for rule 3 and for rule 4 has been categorised: the
\* order decides.
C1_Witness ==
    /\ Categorized
    /\ catIn = <<139, 95>>
    /\ catOut = "Hypertension Stage 1"

\* C2 as stated: categorize_bp(115, 95) returns "Uncategorized".
C2_Original ==
    (Categorized /\ catIn = <<115, 95>>) => catOut = "Uncategorized"

\* C2 as amended: categorize_bp(115, 95) fails rules 1, 2 and 3 but holds
\* for rule 4 on its diastolic value, and returns "Hypertension Stage 2".
C2_Amended ==
    (Categorized /\ catIn = <<115, 95>>) =>
        /\ \A k \in 1..3 : ~RuleHolds(k, catIn[1], catIn[2])
        /\ RuleHolds(4, catIn[1], catIn[2])
        /\ catOut = "Hypertension Stage 2"

C2_Witness ==
    /\ catIn = <<115, 95>>
    /\ catOut = "Hypertension Stage 2"

\* C10: for every pair the form admits categorize_bp never returns
\* "Uncategorized", and no row add_entry builds carries that category.
C10_NeverUncategorized ==
    /\ catOut # "Uncategorized"
    /\ catRow.category # "Uncategorized"

\* A low systolic with a high diastolic value has been categorised and
\* made into a row.
C10_Witness ==
    /\ catIn[1] < 120 /\ catIn[2] >= 90
    /\ Categorized
    /\ catRow # NoRow
    /\ catRow.category = catOut

\* C3 as stated: every row of the persisted table, in either backend, has
\* pulse_pressure = systolic - diastolic, rows that came in by import
\* included.
C3_PulsePressureAlways ==
    \A r \in Range(local.rows) \cup Range(remote.rows) :
        r.pulse_pressure = r.systolic - r.diastolic

\* C4: every table add_entry, the import handler or clear-all hands to
\* save_data is ascending by timestamp, and so is the persisted table of
\* each backend.
C4_PersistedAscending ==
    /\ last.op \in {"add", "import", "clear"} => Ascending(last.df.rows)
    /\ Ascending(local.rows)
    /\ Ascending(remote.rows)

\* add_entry has put a reading in front of a later one.
C4_Witness ==
    /\ last.op = "add"
    /\ last.target = "local"
    /\ Len(local.rows) = 2
    /\ local.rows[1] = WriteRow(last.row)
    /\ local.rows[1].timestamp < local.rows[2].timestamp

\* C5: when Sheets is configured and the remote write of add_entry fails,
\* the table is written to the local file exactly once, the backend
\* reported is "local", and the local file holds the returned table, the
\* new row in it.
C5_FallbackToLocal ==
    (last.op = "add" /\ configured /\ last.error # "none") =>
        /\ last.target = "local"
        /\ last.localWrites = 1
        /\ local.exists
        /\ local.rows = WriteRows(last.df.rows)
        /\ WriteRow(last.row) \in Range(local.rows)

\* A remote write that failed after clearing the sheet, on the second reading.
C5_Witness ==
    /\ last.op = "add"
    /\ configured
    /\ last.error = "failed_cleared"
    /\ last.target = "local"
    /\ Len(local.rows) = 2
    /\ WriteRow(last.row) \in Range(local.rows)

\* C6 as stated: the load that follows clear-all returns zero rows and the
\* eight columns, whatever the remote write of clear-all and the remote
\* read of the load did.
C6_ClearThenLoadEmpty ==
    [][(last.op = "clear" /\ last'.op = "load") =>
          (last'.df.rows = <<>> /\ last'.df.cols = Schema)]_vars

\* The tables the store can hold, as a handler loads them.
StoreTables ==
    {load_data_local(local)} \cup
    (IF configured THEN {load_data_gsheets(remote, "ok").df} ELSE {})

\* T merged with itself: T is downloaded as CSV and uploaded again.
SelfMerge(T) ==
    import_merge(T, read_upload([cols |-> T.cols, rows |-> WriteRows(T.rows)]))

\* C7 as stated: merging a table the store can hold with itself yields the
\* same rows, each as often as before, and so the same row count.
C7_Original ==
    \A T \in StoreTables : \A m \in SelfMerge(T) : SameBag(m.rows, T.rows)

\* C7 as amended: merging a table the store can hold with itself yields
\* every distinct row of the table exactly once, ascending by timestamp;
\* the rows and the row count are those of the table when the table holds
\* no two identical rows.
C7_Amended ==
    \A T \in StoreTables : \A m \in SelfMerge(T) :
        /\ Range(m.rows) = Range(T.rows)
        /\ \A r \in Range(m.rows) : Count(m.rows, r) = 1
        /\ Ascending(m.rows)
        /\ (\A r \in Range(T.rows) : Count(T.rows, r) = 1) =>
               (SameBag(m.rows, T.rows) /\ Len(m.rows) = Len(T.rows))

\* An import has left a table of two different rows.
C7_Witness ==
    /\ last.op = "import"
    /\ \E T \in StoreTables :
          /\ Len(T.rows) = 2
          /\ T.rows[1] # T.rows[2]

\* The table of a backend, and a row as add_entry's save leaves it there.
Backend(name, file, ws) == IF name = "gsheets" THEN ws.rows ELSE file.rows
StoredForms(row) ==
    {WriteRow(row), WriteRow([row EXCEPT !.timestamp = Strftime(@)])}

\* C8 as stated: whatever the remote read and write did, the backend
\* add_entry reports holds afterwards every reading it held before, as
\* often as before, and exactly the one new row.  (Only rows that have a
\* timestamp are counted: a row without one is dropped by every load.)
C8_AppendOnly ==
    [][last'.op = "add" =>
          \E new \in StoredForms(last'.row) :
             LET before == DropNaT(Backend(last'.target, local, remote))
                 after == DropNaT(Backend(last'.target, local', remote'))
             IN \A r \in Range(before) \cup Range(after) :
                   Count(after, r) = Count(before, r) + (IF r = new THEN 1 ELSE 0)]_vars

\* Both calls loaded before either saved, and both are done.
BothDoneBlind ==
    /\ \A s \in Sessions : sess[s].pc = "done" /\ sess[s].seen = 0
    /\ Len(order) = 2

\* C9: when two add_entry calls both load before either saves and both
\* report the same backend, the table of that backend ends as the table the
\* later saver loaded plus the later saver's row: the row of the earlier
\* saver is in it only if the later saver had loaded it or added the same.
C9_LostUpdate ==
    (BothDoneBlind /\ sess[1].target = sess[2].target) =>
        LET winner == sess[order[2]]
            loser == sess[order[1]]
            final == Backend(winner.target, local, remote)
            kept == UNION {StoredForms(winner.df.rows[i]) : i \in 1..Len(winner.df.rows)}
        IN /\ Len(final) = Len(winner.df.rows) + 1
           /\ Range(final) \subseteq kept \cup StoredForms(winner.row)
           /\ \E new \in StoredForms(winner.row) : new \in Range(final)
           /\ \A old \in StoredForms(loser.row) :
                 old \notin (kept \cup StoredForms(winner.row)) => old \notin Range(final)

\* Both sessions loaded the same one-row table, each added a reading of its
\* own, neither showed an error, and the stored table holds two rows: the
\* reading of the earlier saver is not among them.
C9_Witness ==
    /\ BothDoneBlind
    /\ \A s \in Sessions : sess[s].error = "none"
    /\ sess[1].target = sess[2].target
    /\ sess[1].df = sess[2].df
    /\ Len(sess[1].df.rows) = 1
    /\ sess[1].row.timestamp # sess[2].row.timestamp
    /\ Len(Backend(sess[1].target, local, remote)) = 2
    /\ StoredForms(sess[order[1]].row) \cap Range(Backend(sess[1].target, local, remote)) = {}

====
